---- MODULE Spec2Model ----
(***************************************************************************)
(* Link-prediction pipeline of medical-kg-drug-repurposing:                *)
(*   scripts/ml/export_graph_data.py     graph tensor export               *)
(*   scripts/ml/prepare_training_data.py train/val/test splits, negatives  *)
(*   scripts/ml/train_gnn.py             trainer, checkpointing            *)
(*   scripts/ml/evaluate_gnn.py          evaluator                         *)
(*   scripts/ml/generate_predictions.py  candidate generator               *)
(* Random draws (train_test_split, np.random.choice, np.random.permutation)*)
(* are nondeterministic choices: a property stated "for every seed" is     *)
(* checked over every outcome the generator can produce.                   *)
(***************************************************************************)
EXTENDS Integers, Sequences, FiniteSets, TLC

VARIABLES
    pc,                 \* stage of the data pipeline
    db_edges,           \* rows returned by the TREATS query of export_edges
    ratios,             \* <<train, val, test>> ratios of prepare_splits, in percent
    graph_edge_index,   \* graph_data['edge_index'], one pair per column
    train_pos, val_pos, test_pos,   \* positive rows of each split
    train_neg, val_neg, test_neg,   \* negatives returned for each split
    existing_edges_set, \* the set handed to the running generate_negative_samples
    negative_edges,     \* its result list
    num_negatives,      \* its requested count
    attempts,           \* its attempt counter
    train_data, val_data, test_data,  \* the saved split bundles
    structure,          \* structure tensor a consumer passes to the encoder
    t_pc,               \* position of GNNTrainer.train
    epochs, patience,   \* arguments of GNNTrainer.train
    epoch,              \* loop variable of the epoch loop
    model_state,        \* model parameters, as the count of optimizer steps applied
    optimizer_state,    \* optimizer state, likewise
    history,            \* GNNTrainer.history
    best_val_auc,       \* GNNTrainer.best_val_auc
    patience_counter,   \* GNNTrainer.patience_counter
    checkpoint,         \* content of the file at save_path: <<>> when absent
    c_pc,               \* position of generate_predictions.main
    entity_types,       \* the entity_type column of entities.csv, row 0 first
    top_k,              \* --top-k
    entity_drug_indices,    \* drug_indices returned by load_entity_mapping
    entity_disease_indices, \* disease_indices returned by load_entity_mapping
    existing_edges,     \* set returned by get_existing_edges
    all_candidates,     \* candidate list of generate_candidates
    probabilities,      \* result of predict_batch, parallel to all_candidates
    predictions,        \* rows of the returned table, rank 1 first
    num_drugs, num_diseases,  \* TrainingDataPreparator.num_drugs / num_diseases
    global_edges_set,   \* existing_edges_set of prepare_splits (line 97), which it copies for each sampler call
    e_pc,               \* position of ModelEvaluator.evaluate
    y_true,             \* test_data['labels']
    y_pred_probs,       \* result of ModelEvaluator.predict, in percent
    k_values,           \* k_values of compute_precision_at_k
    metrics,            \* the metrics dictionary of evaluate: <<>> before it is built
    precision_at_k,     \* result of compute_precision_at_k: K |-> [num, den]
    metrics_file,       \* content of data/results/test_metrics.json: <<>> when absent
    r_pc,               \* position of the two prepare_splits runs under comparison
    r_edges, r_ratios,  \* their common positive-edge input and ratios; the seed is common too
    first_run, second_run,      \* the locals of each of the two runs
    m_pc,               \* position of the two create_node_mappings calls
    drug_records, disease_records,  \* the id columns of the records export_nodes returned
    node_mappings,      \* <<node_to_idx, idx_to_node>> of the first call, as a record
    node_mappings_again,\* the same of the second call
    x_pc,               \* position of export_edges
    x_rows,             \* rows its TREATS query returned: <<drug_id, disease_id>>
    x_edge_index,       \* the edge_index list it returns
    x_log,              \* the lines it printed: <<message, count>>
    b_pc,               \* position of a call of predict_batch
    b_candidates,       \* its edge_candidates
    b_batch_size,       \* its batch_size
    b_score,            \* what the loaded model, in eval mode, gives each pair (percent)
    b_result,           \* the array it returned
    ev_model,           \* parameters of ModelEvaluator.model: <<>> before construction
    ev_loads,           \* torch.load calls the evaluator made on the checkpoint
    ev_calls,           \* predict / evaluate calls made on it
    pg_model,           \* parameters of PredictionGenerator.model, likewise
    pg_loads,           \* torch.load calls the generator made on the checkpoint
    pg_calls            \* predict_batch / generate_candidates calls made on it

pipeVars == <<pc, db_edges, ratios, graph_edge_index, train_pos, val_pos, test_pos,
              train_neg, val_neg, test_neg, existing_edges_set, negative_edges,
              num_negatives, attempts, train_data, val_data, test_data, structure,
              num_drugs, num_diseases, global_edges_set>>

trainVars == <<t_pc, epochs, patience, epoch, model_state, optimizer_state, history,
               best_val_auc, patience_counter, checkpoint>>

candVars == <<c_pc, entity_types, top_k, entity_drug_indices, entity_disease_indices,
              existing_edges, all_candidates, probabilities, predictions>>

evalVars == <<e_pc, y_true, y_pred_probs, k_values, metrics, precision_at_k, metrics_file>>

replayVars == <<r_pc, r_edges, r_ratios, first_run, second_run>>

mapVars == <<m_pc, drug_records, disease_records, node_mappings, node_mappings_again>>

exportVars == <<x_pc, x_rows, x_edge_index, x_log>>

batchVars == <<b_pc, b_candidates, b_batch_size, b_score, b_result>>

loadVars == <<ev_model, ev_loads, ev_calls, pg_model, pg_loads, pg_calls>>

extVars == <<exportVars, batchVars, loadVars>>

vars == <<pipeVars, trainVars, candVars, evalVars, replayVars, mapVars, extVars>>

-----------------------------------------------------------------------------
(* Bounds *)
MaxEdges == 3
MaxEpochs == 4
MaxPatience == 2
MaxAuc == 2
MaxCols == 1
MaxSamples == 3

(* Program constants *)
RetryFactor == 10
NegRatio == 1
BatchSize == 2000

NoFile == [edge_index |-> <<>>, labels |-> <<>>, num_pos |-> -1, num_neg |-> -1]

-----------------------------------------------------------------------------
(* Helpers on sequences *)
Range(s) == {s[i] : i \in 1..Len(s)}

Perms(n) == {p \in [1..n -> 1..n] : \A i, j \in 1..n : p[i] = p[j] => i = j}

Gather(s, idx) == [k \in 1..Len(idx) |-> s[idx[k]]]

Take(s, n) == SubSeq(s, 1, IF n < Len(s) THEN n ELSE Len(s))

-----------------------------------------------------------------------------
(* export_graph_data.py *)

\* The Drug and Disease nodes of the database, as export_nodes returns them
\* (ORDER BY id, each block apart).
DrugIds == <<"DRUG_0001", "DRUG_0003">>
DiseaseIds == <<"DISEASE_0002", "DISEASE_0004">>

NumDrugs == Len(DrugIds)
NumDiseases == Len(DiseaseIds)

\* create_node_mappings: drug block first, then disease block, in input order.
\* -1 stands for the None of dict.get.
NodeToIdx(id) ==
    IF \E i \in 1..NumDrugs : DrugIds[i] = id
    THEN (CHOOSE i \in 1..NumDrugs : DrugIds[i] = id) - 1
    ELSE IF \E j \in 1..NumDiseases : DiseaseIds[j] = id
    THEN NumDrugs + (CHOOSE j \in 1..NumDiseases : DiseaseIds[j] = id) - 1
    ELSE -1

\* export_edges: one column per returned row whose two ids are mapped;
\* rows are not de-duplicated.
RECURSIVE ExportEdges(_)
ExportEdges(rows) ==
    IF rows = <<>> THEN <<>>
    ELSE LET drug_idx == NodeToIdx(Head(rows)[1])
             disease_idx == NodeToIdx(Head(rows)[2])
         IN  IF drug_idx # -1 /\ disease_idx # -1
             THEN <<<<drug_idx, disease_idx>>>> \o ExportEdges(Tail(rows))
             ELSE ExportEdges(Tail(rows))

DbRows == {<<DrugIds[i], DiseaseIds[j]>> : i \in 1..NumDrugs, j \in 1..NumDiseases}

\* the k-th (drug, disease) pair, drug-major
RowAt(k) == <<DrugIds[((k - 1) \div NumDiseases) + 1], DiseaseIds[((k - 1) % NumDiseases) + 1]>>

\* The row lists the TREATS query can return, repeated pairs included. The
\* query fixes no order; the lists are taken in one order per multiset of
\* rows, since the split draws every permutation of the rows it is given.
EdgeLists ==
    UNION { { [i \in 1..n |-> RowAt(f[i])] :
                f \in {g \in [1..n -> 1..(NumDrugs * NumDiseases)] :
                          \A i, j \in 1..n : i < j => g[i] <= g[j]} } :
            n \in 0..MaxEdges }

\* The ratios main passes, a second valid setting, and one whose sum is 0.7.
RatioConfigs == {<<70, 15, 15>>, <<50, 25, 25>>, <<50, 10, 10>>}

\* graph_data.pt of a graph with 4 drugs (0..3) and 3 diseases (4..6) whose
\* positive edges join drug i to disease i, prepared with ratios 1/0/0
ScenarioEdges == <<<<0, 4>>, <<1, 5>>, <<2, 6>>>>

ScenarioRatios == <<100, 0, 0>>

-----------------------------------------------------------------------------
(* prepare_training_data.py *)

\* The index blocks generate_negative_samples draws from.
drug_indices == 0..(NumDrugs - 1)
disease_indices == NumDrugs..(NumDrugs + NumDiseases - 1)

\* the same blocks, from the counts the preparator read from graph_data.pt
DrugIndicesOf(nd) == 0..(nd - 1)
DiseaseIndicesOf(nd, ndis) == nd..(nd + ndis - 1)

\* existing_edges_set = set(map(tuple, positive_edges))
ExistingEdgesSet(positive_edges) == Range(positive_edges)

\* existing_edges_set.copy(): a new set with the same members
SetCopy(s) == s

\* The caller's set after generate_negative_samples(n, existing_edges_set.copy())
\* returned: the sampler added its pairs to the copy it was given (line 62)
AfterSamplerCallOnSameSet(callers_set, samplers_set) == samplers_set

AfterSamplerCall(callers_set, samplers_set) == callers_set

\* the acceptance test of the rejection loop
IsNewEdgeAlways(drug_idx, disease_idx, existing) == TRUE

IsNewEdge(drug_idx, disease_idx, existing) == <<drug_idx, disease_idx>> \notin existing

\* the loop condition of generate_negative_samples
SamplerRunningUncapped(negs, num, att) == Len(negs) < num

SamplerRunning(negs, num, att) == Len(negs) < num /\ att < num * RetryFactor

\* num_*_neg = int(len(pos) * neg_ratio)
NumNeg(pos) == Len(pos) * NegRatio

\* train_test_split(arr, train_size=num/den): n_train = floor(train_size * n),
\* n_test = n - n_train; a train_size outside (0, 1) or an empty train set
\* raises ValueError.
NTrain(n, num, den) == (num * n) \div den

SplitValid(n, num, den) == n >= 1 /\ den > 0 /\ num > 0 /\ num < den /\ NTrain(n, num, den) >= 1

\* ShuffleSplit: test takes the first n_test entries of the permutation,
\* train the following n_train.
TestPart(arr, p, n_train) == [k \in 1..(Len(arr) - n_train) |-> arr[p[k]]]

TrainPart(arr, p, n_train) == [k \in 1..n_train |-> arr[p[Len(arr) - n_train + k]]]

Ones(n) == [k \in 1..n |-> 1]
Zeros(n) == [k \in 1..n |-> 0]

\* one saved split bundle: vstack, label vector, the permutation applied to both
BundleLabelsInPlace(pos, neg, perm) ==
    [edge_index |-> Gather(pos \o neg, perm),
     labels     |-> Ones(Len(pos)) \o Zeros(Len(neg)),
     num_pos    |-> Len(pos),
     num_neg    |-> Len(neg)]

Bundle(pos, neg, perm) ==
    [edge_index |-> Gather(pos \o neg, perm),
     labels     |-> Gather(Ones(Len(pos)) \o Zeros(Len(neg)), perm),
     num_pos    |-> Len(pos),
     num_neg    |-> Len(neg)]

\* the trainer before GNNTrainer is constructed
TrainIdle ==
    /\ t_pc = "idle"
    /\ epochs = 0 /\ patience = 0 /\ epoch = 0
    /\ model_state = 0 /\ optimizer_state = 0
    /\ history = [train_loss |-> <<>>, train_auc |-> <<>>, val_loss |-> <<>>,
                  val_auc |-> <<>>, val_ap |-> <<>>]
    /\ best_val_auc = 0
    /\ patience_counter = 0
    /\ checkpoint = <<>>

\* the candidate generator before generate_predictions.main runs
CandIdle ==
    /\ c_pc = "idle"
    /\ entity_types = <<>>
    /\ top_k = 0
    /\ entity_drug_indices = <<>> /\ entity_disease_indices = <<>>
    /\ existing_edges = {}
    /\ all_candidates = <<>>
    /\ probabilities = <<>>
    /\ predictions = <<>>

\* the evaluator before ModelEvaluator.evaluate is called
EvalIdle ==
    /\ e_pc = "idle"
    /\ y_true = <<>> /\ y_pred_probs = <<>> /\ k_values = <<>>
    /\ metrics = <<>>
    /\ precision_at_k = <<>>
    /\ metrics_file = <<>>

\* no pair of runs is under comparison
ReplayIdle ==
    /\ r_pc = "idle"
    /\ r_edges = <<>> /\ r_ratios = <<>>
    /\ first_run = <<>> /\ second_run = <<>>

\* the exporter before create_node_mappings is called
MapIdle ==
    /\ m_pc = "idle"
    /\ drug_records = <<>> /\ disease_records = <<>>
    /\ node_mappings = <<>> /\ node_mappings_again = <<>>

\* export_edges is not running
ExportIdle ==
    /\ x_pc = "idle"
    /\ x_rows = <<>> /\ x_edge_index = <<>> /\ x_log = <<>>

\* predict_batch is not under test
BatchIdle ==
    /\ b_pc = "idle"
    /\ b_candidates = <<>> /\ b_batch_size = 0 /\ b_score = <<>> /\ b_result = <<>>

\* neither consumer of the checkpoint has been constructed
LoadIdle ==
    /\ ev_model = <<>> /\ ev_loads = 0 /\ ev_calls = 0
    /\ pg_model = <<>> /\ pg_loads = 0 /\ pg_calls = 0

ExtIdle == ExportIdle /\ BatchIdle /\ LoadIdle

Init ==
    /\ \/ /\ pc = "export"
          /\ db_edges \in EdgeLists
          /\ ratios \in RatioConfigs
          /\ graph_edge_index = <<>>
          /\ num_drugs = 0 /\ num_diseases = 0
       \/ /\ pc = "split"
          /\ db_edges = <<>>
          /\ ratios = ScenarioRatios
          /\ graph_edge_index = ScenarioEdges
          /\ num_drugs = 4 /\ num_diseases = 3
    /\ train_pos = <<>> /\ val_pos = <<>> /\ test_pos = <<>>
    /\ train_neg = <<>> /\ val_neg = <<>> /\ test_neg = <<>>
    /\ global_edges_set = {}
    /\ existing_edges_set = {}
    /\ negative_edges = <<>>
    /\ num_negatives = 0
    /\ attempts = 0
    /\ train_data = NoFile /\ val_data = NoFile /\ test_data = NoFile
    /\ structure = <<>>
    /\ TrainIdle
    /\ CandIdle
    /\ EvalIdle
    /\ ReplayIdle
    /\ MapIdle
    /\ ExtIdle

\* GraphDataExporter.export_graph: the edge part of graph_data.pt
ExportGraph ==
    /\ pc = "export"
    /\ graph_edge_index' = ExportEdges(db_edges)
    /\ num_drugs' = NumDrugs
    /\ num_diseases' = NumDiseases
    /\ pc' = "split"
    /\ UNCHANGED <<trainVars, candVars, evalVars, replayVars, mapVars, extVars, db_edges, ratios, train_pos, val_pos, test_pos, train_neg, val_neg,
                   test_neg, global_edges_set, existing_edges_set, negative_edges, num_negatives,
                   attempts, train_data, val_data, test_data, structure>>

\* prepare_splits, lines 88-123: the two train_test_split calls, then the
\* entry into generate_negative_samples for the train split.
SplitPositives ==
    /\ pc = "split"
    /\ LET n == Len(graph_edge_index)
           n_train == NTrain(n, ratios[1], 100)
           m == n - n_train
           vden == ratios[2] + ratios[3]
           n_val == NTrain(m, ratios[2], vden)
       IN  /\ SplitValid(n, ratios[1], 100)
           /\ SplitValid(m, ratios[2], vden)
           /\ \E p \in Perms(n), q \in Perms(m) :
                LET temp == TestPart(graph_edge_index, p, n_train)
                IN  /\ train_pos' = TrainPart(graph_edge_index, p, n_train)
                    /\ val_pos' = TrainPart(temp, q, n_val)
                    /\ test_pos' = TestPart(temp, q, n_val)
    /\ global_edges_set' = ExistingEdgesSet(graph_edge_index)
    /\ existing_edges_set' = SetCopy(global_edges_set')
    /\ negative_edges' = <<>>
    /\ num_negatives' = NumNeg(train_pos')
    /\ attempts' = 0
    /\ pc' = "neg_train"
    /\ UNCHANGED <<trainVars, candVars, evalVars, replayVars, mapVars, extVars, num_drugs, num_diseases, db_edges, ratios, graph_edge_index, train_neg, val_neg, test_neg,
                   train_data, val_data, test_data, structure>>

\* prepare_splits when train_test_split raises ValueError (or val_ratio +
\* test_ratio is zero): nothing is sampled or saved.
SplitFails ==
    /\ pc = "split"
    /\ LET n == Len(graph_edge_index)
           m == n - NTrain(n, ratios[1], 100)
       IN  ~(SplitValid(n, ratios[1], 100) /\ SplitValid(m, ratios[2], ratios[2] + ratios[3]))
    /\ pc' = "error"
    /\ UNCHANGED <<trainVars, candVars, evalVars, replayVars, mapVars, extVars, num_drugs, num_diseases, global_edges_set, db_edges, ratios, graph_edge_index, train_pos, val_pos, test_pos,
                   train_neg, val_neg, test_neg, existing_edges_set, negative_edges,
                   num_negatives, attempts, train_data, val_data, test_data, structure>>

\* generate_negative_samples: one iteration of the while loop
DrawNegative ==
    /\ pc \in {"neg_train", "neg_val", "neg_test"}
    /\ SamplerRunning(negative_edges, num_negatives, attempts)
    /\ \E drug_idx \in DrugIndicesOf(num_drugs),
          disease_idx \in DiseaseIndicesOf(num_drugs, num_diseases) :
         IF IsNewEdge(drug_idx, disease_idx, existing_edges_set)
         THEN /\ negative_edges' = Append(negative_edges, <<drug_idx, disease_idx>>)
              /\ existing_edges_set' = existing_edges_set \cup {<<drug_idx, disease_idx>>}
         ELSE UNCHANGED <<negative_edges, existing_edges_set>>
    /\ attempts' = attempts + 1
    /\ UNCHANGED <<trainVars, candVars, evalVars, replayVars, mapVars, extVars, num_drugs, num_diseases, global_edges_set, pc, db_edges, ratios, graph_edge_index, train_pos, val_pos, test_pos,
                   train_neg, val_neg, test_neg, num_negatives, train_data, val_data,
                   test_data, structure>>

\* generate_negative_samples returns; prepare_splits calls it for the next
\* split with a fresh copy of the positive-edge set (lines 123-125).
ReturnNegatives ==
    /\ pc \in {"neg_train", "neg_val", "neg_test"}
    /\ ~SamplerRunning(negative_edges, num_negatives, attempts)
    /\ train_neg' = IF pc = "neg_train" THEN negative_edges ELSE train_neg
    /\ val_neg' = IF pc = "neg_val" THEN negative_edges ELSE val_neg
    /\ test_neg' = IF pc = "neg_test" THEN negative_edges ELSE test_neg
    /\ pc' = CASE pc = "neg_train" -> "neg_val"
               [] pc = "neg_val" -> "neg_test"
               [] OTHER -> "combine"
    /\ global_edges_set' = AfterSamplerCall(global_edges_set, existing_edges_set)
    /\ existing_edges_set' = SetCopy(global_edges_set')
    /\ negative_edges' = <<>>
    /\ num_negatives' = CASE pc = "neg_train" -> NumNeg(val_pos)
                          [] pc = "neg_val" -> NumNeg(test_pos)
                          [] OTHER -> 0
    /\ attempts' = 0
    /\ UNCHANGED <<trainVars, candVars, evalVars, replayVars, mapVars, extVars, num_drugs, num_diseases, db_edges, ratios, graph_edge_index, train_pos, val_pos, test_pos,
                   train_data, val_data, test_data, structure>>

\* np.vstack([pos, neg]) raises ValueError when neg is the empty list
StackOK(pos, neg) == Len(pos) > 0 /\ Len(neg) > 0

\* prepare_splits, lines 127-188: stack, label, shuffle, save
CombineShuffleSave ==
    /\ pc = "combine"
    /\ StackOK(train_pos, train_neg) /\ StackOK(val_pos, val_neg) /\ StackOK(test_pos, test_neg)
    /\ \E train_perm \in Perms(Len(train_pos) + Len(train_neg)),
          val_perm \in Perms(Len(val_pos) + Len(val_neg)),
          test_perm \in Perms(Len(test_pos) + Len(test_neg)) :
         /\ train_data' = Bundle(train_pos, train_neg, train_perm)
         /\ val_data' = Bundle(val_pos, val_neg, val_perm)
         /\ test_data' = Bundle(test_pos, test_neg, test_perm)
    /\ pc' = "saved"
    /\ UNCHANGED <<trainVars, candVars, evalVars, replayVars, mapVars, extVars, num_drugs, num_diseases, global_edges_set, db_edges, ratios, graph_edge_index, train_pos, val_pos, test_pos,
                   train_neg, val_neg, test_neg, existing_edges_set, negative_edges,
                   num_negatives, attempts, structure>>

CombineFails ==
    /\ pc = "combine"
    /\ ~(StackOK(train_pos, train_neg) /\ StackOK(val_pos, val_neg) /\ StackOK(test_pos, test_neg))
    /\ pc' = "error"
    /\ UNCHANGED <<trainVars, candVars, evalVars, replayVars, mapVars, extVars, num_drugs, num_diseases, global_edges_set, db_edges, ratios, graph_edge_index, train_pos, val_pos, test_pos,
                   train_neg, val_neg, test_neg, existing_edges_set, negative_edges,
                   num_negatives, attempts, train_data, val_data, test_data, structure>>

-----------------------------------------------------------------------------
(* The structure tensor each consumer hands to the encoder *)

\* train_data['edge_index'][:, :train_data['num_pos']]
TrainPositiveEdges(data) == Take(data.edge_index, data.num_pos)

\* train_gnn.main: the structure of every train and val forward pass
TrainMain ==
    /\ pc = "saved"
    /\ structure' = TrainPositiveEdges(train_data)
    /\ pc' = "training"
    /\ UNCHANGED <<trainVars, candVars, evalVars, replayVars, mapVars, extVars, num_drugs, num_diseases, global_edges_set, db_edges, ratios, graph_edge_index, train_pos, val_pos, test_pos,
                   train_neg, val_neg, test_neg, existing_edges_set, negative_edges,
                   num_negatives, attempts, train_data, val_data, test_data>>

\* evaluate_gnn.main: the structure of the test forward pass
EvaluateMain ==
    /\ pc = "saved"
    /\ structure' = TrainPositiveEdges(train_data)
    /\ pc' = "evaluating"
    /\ UNCHANGED <<trainVars, candVars, evalVars, replayVars, mapVars, extVars, num_drugs, num_diseases, global_edges_set, db_edges, ratios, graph_edge_index, train_pos, val_pos, test_pos,
                   train_neg, val_neg, test_neg, existing_edges_set, negative_edges,
                   num_negatives, attempts, train_data, val_data, test_data>>

\* PredictionGenerator.predict_batch: full_edge_index = graph_data['edge_index']
PredictStructure ==
    /\ pc = "saved"
    /\ structure' = graph_edge_index
    /\ pc' = "predicting"
    /\ UNCHANGED <<trainVars, candVars, evalVars, replayVars, mapVars, extVars, num_drugs, num_diseases, global_edges_set, db_edges, ratios, graph_edge_index, train_pos, val_pos, test_pos,
                   train_neg, val_neg, test_neg, existing_edges_set, negative_edges,
                   num_negatives, attempts, train_data, val_data, test_data>>

Next ==
    \/ ExportGraph
    \/ SplitPositives
    \/ SplitFails
    \/ DrawNegative
    \/ ReturnNegatives
    \/ CombineShuffleSave
    \/ CombineFails
    \/ TrainMain
    \/ EvaluateMain
    \/ PredictStructure

Spec == Init /\ [][Next]_vars

-----------------------------------------------------------------------------
(* train_gnn.py: GNNTrainer.train *)

\* the pipeline variables while only a consumer of its files runs
PipeQuiet ==
    /\ pc = "idle"
    /\ db_edges = <<>>
    /\ ratios = <<70, 15, 15>>
    /\ graph_edge_index = <<>>
    /\ train_pos = <<>> /\ val_pos = <<>> /\ test_pos = <<>>
    /\ train_neg = <<>> /\ val_neg = <<>> /\ test_neg = <<>>
    /\ global_edges_set = {}
    /\ existing_edges_set = {}
    /\ negative_edges = <<>>
    /\ num_negatives = 0
    /\ attempts = 0
    /\ structure = <<>>
    /\ num_drugs = 0 /\ num_diseases = 0

PipeIdle ==
    /\ PipeQuiet
    /\ train_data = NoFile /\ val_data = NoFile /\ test_data = NoFile

\* Validation metrics of one epoch, on an integer scale: 0 is the 0.0 that
\* evaluate reports for a single-class split.
AucValues == 0..MaxAuc
ApValues == {0, 1}

\* the loss values, which no branch reads
Metric == 0

\* the label vectors of the split files train_gnn.main loads: one with both
\* classes and the two single-class ones
LabelVectors == {<<1, 0>>, <<1, 1>>, <<0, 0>>}

\* a split file with the given label vector
LabelledFile(labels) ==
    [edge_index |-> [i \in 1..Len(labels) |->
                        IF labels[i] = 1 THEN <<0, NumDrugs>>
                        ELSE <<NumDrugs - 1, NumDrugs + NumDiseases - 1>>],
     labels     |-> labels,
     num_pos    |-> Cardinality({i \in 1..Len(labels) : labels[i] = 1}),
     num_neg    |-> Cardinality({i \in 1..Len(labels) : labels[i] = 0})]

\* Outcomes of sklearn's roc_auc_score that are not a score: the ValueError
\* older releases raise for a single-class y_true, and the nan newer releases
\* return for it with a warning. Any comparison with nan is false, as with -2
\* against the non-negative scores.
ValueError == -1
NaN == -2

\* roc_auc_score(y_true, y_score) with scores drawn from the given set
RocAucScore(labels, scores) ==
    IF Cardinality(Range(labels)) > 1 THEN scores ELSE {ValueError, NaN}

\* the train AUC of a two-class batch; it is recorded and never read
TrainAucValues == {MaxAuc}

\* if len(np.unique(labels_np)) > 1
HasBothClassesAlways(labels) == TRUE

HasBothClasses(labels) == Cardinality(Range(labels)) > 1

\* train_epoch, lines 64-68: the AUC it returns
TrainEpochAuc(labels) ==
    IF HasBothClasses(labels) THEN RocAucScore(labels, TrainAucValues) ELSE {0}

\* evaluate, lines 93-99: the <<auc, ap>> pairs it returns
EvaluateMetrics(labels) ==
    IF HasBothClasses(labels)
    THEN RocAucScore(labels, AucValues) \X ApValues
    ELSE {<<0, 0>>}

\* if val_auc > self.best_val_auc
IsImprovementOrEqual(val_auc, best) == val_auc >= best

IsImprovement(val_auc, best) == val_auc > best

\* if self.patience_counter >= patience: break
ShouldStopStrict(counter, pat) == counter > pat

ShouldStop(counter, pat) == counter >= pat

\* the dictionary torch.save writes to save_path, lines 160-166; state_dict()
\* is taken after train_epoch's optimizer step
SavedCheckpointBeforeStep(ep, params, opt, val_auc, val_ap) ==
    [epoch |-> ep, model_state_dict |-> params - 1, optimizer_state_dict |-> opt - 1,
     val_auc |-> val_auc, val_ap |-> val_ap]

SavedCheckpoint(ep, params, opt, val_auc, val_ap) ==
    [epoch |-> ep, model_state_dict |-> params, optimizer_state_dict |-> opt,
     val_auc |-> val_auc, val_ap |-> val_ap]

\* GNNTrainer.__init__ and the call of train with its arguments
TrainInit ==
    /\ PipeQuiet
    /\ train_data \in {LabelledFile(l) : l \in LabelVectors}
    /\ val_data \in {LabelledFile(l) : l \in LabelVectors}
    /\ test_data = NoFile
    /\ CandIdle
    /\ EvalIdle
    /\ ReplayIdle
    /\ MapIdle
    /\ ExtIdle
    /\ t_pc = "start"
    /\ epochs \in 0..MaxEpochs
    /\ patience \in 0..MaxPatience
    /\ epoch = 0
    /\ model_state = 0 /\ optimizer_state = 0
    /\ history = [train_loss |-> <<>>, train_auc |-> <<>>, val_loss |-> <<>>,
                  val_auc |-> <<>>, val_ap |-> <<>>]
    /\ best_val_auc = 0
    /\ patience_counter = 0
    /\ checkpoint = <<>>

\* train, lines 117-133: the optimizer is created, the loop is entered
TrainStart ==
    /\ t_pc = "start"
    /\ t_pc' = "loop"
    /\ UNCHANGED <<pipeVars, candVars, evalVars, replayVars, mapVars, extVars, epochs, patience, epoch, model_state, optimizer_state,
                   history, best_val_auc, patience_counter, checkpoint>>

\* one iteration of the epoch loop, lines 135-177
TrainEpoch ==
    /\ t_pc = "loop"
    /\ epoch < epochs
    /\ epoch' = epoch + 1
    \* train_epoch: optimizer.step()
    /\ model_state' = model_state + 1
    /\ optimizer_state' = optimizer_state + 1
    \* train_epoch, then evaluate on the val split; an exception of either
    \* leaves train
    /\ \E train_auc \in TrainEpochAuc(train_data.labels),
          val \in EvaluateMetrics(val_data.labels) :
         LET val_auc == val[1]
             val_ap == val[2]
         IN  IF train_auc = ValueError \/ val_auc = ValueError
             THEN /\ t_pc' = "error"
                  /\ UNCHANGED <<history, best_val_auc, patience_counter, checkpoint>>
             ELSE /\ history' = [train_loss |-> Append(history.train_loss, Metric),
                                 train_auc  |-> Append(history.train_auc, train_auc),
                                 val_loss   |-> Append(history.val_loss, Metric),
                                 val_auc    |-> Append(history.val_auc, val_auc),
                                 val_ap     |-> Append(history.val_ap, val_ap)]
                  /\ IF IsImprovement(val_auc, best_val_auc)
                     THEN /\ best_val_auc' = val_auc
                          /\ patience_counter' = 0
                          /\ checkpoint' = << SavedCheckpoint(epoch', model_state',
                                                              optimizer_state',
                                                              val_auc, val_ap) >>
                     ELSE /\ patience_counter' = patience_counter + 1
                          /\ UNCHANGED <<best_val_auc, checkpoint>>
                  /\ t_pc' = IF ShouldStop(patience_counter', patience) THEN "done" ELSE "loop"
    /\ UNCHANGED <<pipeVars, candVars, evalVars, replayVars, mapVars, extVars, epochs, patience>>

\* the for loop is exhausted: train returns the history
TrainReturn ==
    /\ t_pc = "loop"
    /\ epoch >= epochs
    /\ t_pc' = "done"
    /\ UNCHANGED <<pipeVars, candVars, evalVars, replayVars, mapVars, extVars, epochs, patience, epoch, model_state, optimizer_state,
                   history, best_val_auc, patience_counter, checkpoint>>

TrainNext == TrainStart \/ TrainEpoch \/ TrainReturn

TrainSpec == TrainInit /\ [][TrainNext]_vars

\* train is a blocking call that runs to completion: each step is taken
FairTrainSpec == TrainSpec /\ WF_vars(TrainNext)

-----------------------------------------------------------------------------
(* generate_predictions.py *)

\* entities.csv lists the nodes of the graph, drugs and diseases in any
\* interleaving (rows are in frequency order); pandas numbers the rows from 0.
EntityTables ==
    {t \in [1..(NumDrugs + NumDiseases) -> {"CHEMICAL", "DISEASE"}] :
        Cardinality({i \in DOMAIN t : t[i] = "CHEMICAL"}) = NumDrugs}

\* [idx for idx, info in entity_map.items() if info['entity_type'] == t]
IndicesOfType(types, t) ==
    SelectSeq([i \in 1..Len(types) |-> i - 1], LAMBDA idx : types[idx + 1] = t)

\* The columns a split bundle can hold: a pair of the graph's drug and disease
\* blocks with its label.
FileColumns == (drug_indices \X disease_indices) \X {0, 1}

SplitFile(cols) ==
    [edge_index |-> [i \in 1..Len(cols) |-> cols[i][1]],
     labels     |-> [i \in 1..Len(cols) |-> cols[i][2]],
     num_pos    |-> Cardinality({i \in 1..Len(cols) : cols[i][2] = 1}),
     num_neg    |-> Cardinality({i \in 1..Len(cols) : cols[i][2] = 0})]

FilesOfLength(n) == {SplitFile(cols) : cols \in [1..n -> FileColumns]}

\* the probabilities the loaded model can assign, in percent
ProbValues == {50, 75}

\* values of --top-k: two small ones and the default
TopKValues == {1, 2, 100}

\* get_existing_edges: pos_mask = labels == 1; pos_edges = edge_index[:, pos_mask]
PositiveEdgesOf(data) ==
    {data.edge_index[i] : i \in {j \in 1..Len(data.labels) : data.labels[j] = 1}}

\* get_existing_edges: both directions of every positive edge of the three files
GetExistingEdgesTrainOnly(train, val, test) ==
    UNION { {<<e[1], e[2]>>, <<e[2], e[1]>>} : e \in PositiveEdgesOf(train) }

GetExistingEdges(train, val, test) ==
    UNION { {<<e[1], e[2]>>, <<e[2], e[1]>>} :
              e \in PositiveEdgesOf(train) \cup PositiveEdgesOf(val) \cup PositiveEdgesOf(test) }

\* generate_candidates, lines 151-157: drug-major, disease-minor enumeration
\* of the pairs that are not in existing_edges
CrossProduct(drugs, diseases) ==
    [k \in 1..(Len(drugs) * Len(diseases)) |->
        <<drugs[((k - 1) \div Len(diseases)) + 1], diseases[((k - 1) % Len(diseases)) + 1]>>]

EnumerateCandidates(drugs, diseases, existing) ==
    SelectSeq(CrossProduct(drugs, diseases), LAMBDA c : c \notin existing)

\* Split files of a graph in which every drug treats every disease, or every
\* pair but the last: all the positives in the train file
DenseFiles ==
    LET all == CrossProduct([i \in 1..NumDrugs |-> i - 1],
                            [j \in 1..NumDiseases |-> NumDrugs + j - 1])
    IN  {SplitFile([i \in 1..n |-> <<all[i], 1>>]) : n \in {Len(all) - 1, Len(all)}}

\* EdgeDecoder.forward: self.mlp(edge_features).squeeze() drops every axis of
\* length 1, so the [1, 1] output for a single pair becomes a 0-d tensor
Squeeze(values) == [ndim |-> IF Len(values) = 1 THEN 0 ELSE 1, values |-> values]

\* self.model(x, full_edge_index, edge_label_index) for one batch, then
\* sigmoid: score is the loaded model in eval mode, the same for every batch
ModelForward(batch, score) == Squeeze([i \in 1..Len(batch) |-> score[batch[i]]])

\* predict_batch: the candidates are scored batch by batch and the results
\* concatenated; all_probs.extend(probs) raises TypeError on a 0-d array
RECURSIVE PredictBatch(_, _, _)
PredictBatch(cands, score, batch_size) ==
    IF cands = <<>> THEN [raised |-> FALSE, all_probs |-> <<>>]
    ELSE LET batch == Take(cands, batch_size)
             probs == ModelForward(batch, score)
             rest == PredictBatch(SubSeq(cands, Len(batch) + 1, Len(cands)), score, batch_size)
         IN  IF probs.ndim = 0 \/ rest.raised
             THEN [raised |-> TRUE, all_probs |-> <<>>]
             ELSE [raised |-> FALSE, all_probs |-> probs.values \o rest.all_probs]

\* np.argsort(probabilities): an ascending order of the positions; the default
\* sort is not stable, so equal entries come in any order
ArgsortOrders(probs) ==
    {p \in Perms(Len(probs)) : \A i, j \in 1..Len(probs) : i < j => probs[p[i]] <= probs[p[j]]}

Reverse(s) == [i \in 1..Len(s) |-> s[Len(s) + 1 - i]]

\* the rows of the returned table; positions are 1-based here
PredictionRows(top_indices, cands, probs) ==
    [r \in 1..Len(top_indices) |->
        [rank |-> r,
         drug_idx |-> cands[top_indices[r]][1],
         disease_idx |-> cands[top_indices[r]][2],
         confidence |-> probs[top_indices[r]]]]

CandInit ==
    /\ PipeQuiet
    /\ TrainIdle
    /\ EvalIdle
    /\ ReplayIdle
    /\ MapIdle
    /\ ExtIdle
    /\ \/ \E a, b, c \in 0..MaxCols :
            /\ a + b + c <= MaxCols
            /\ train_data \in FilesOfLength(a)
            /\ val_data \in FilesOfLength(b)
            /\ test_data \in FilesOfLength(c)
       \/ /\ train_data \in DenseFiles
          /\ val_data = SplitFile(<<>>)
          /\ test_data = SplitFile(<<>>)
    /\ c_pc = "start"
    /\ entity_types \in EntityTables
    /\ top_k \in TopKValues
    /\ entity_drug_indices = <<>> /\ entity_disease_indices = <<>>
    /\ existing_edges = {}
    /\ all_candidates = <<>>
    /\ probabilities = <<>>
    /\ predictions = <<>>

\* PredictionGenerator.load_entity_mapping
LoadEntityMapping ==
    /\ c_pc = "start"
    /\ entity_drug_indices' = IndicesOfType(entity_types, "CHEMICAL")
    /\ entity_disease_indices' = IndicesOfType(entity_types, "DISEASE")
    /\ c_pc' = "mapped"
    /\ UNCHANGED <<pipeVars, trainVars, evalVars, replayVars, mapVars, extVars, entity_types, top_k, existing_edges,
                   all_candidates, probabilities, predictions>>

\* PredictionGenerator.get_existing_edges
LoadExistingEdges ==
    /\ c_pc = "mapped"
    /\ existing_edges' = GetExistingEdges(train_data, val_data, test_data)
    /\ c_pc' = "edges_loaded"
    /\ UNCHANGED <<pipeVars, trainVars, evalVars, replayVars, mapVars, extVars, entity_types, top_k, entity_drug_indices,
                   entity_disease_indices, all_candidates, probabilities, predictions>>

\* PredictionGenerator.generate_candidates: enumerate, score, rank, build the
\* table. A TypeError of predict_batch leaves it at line 163; an empty table
\* has no 'confidence' column and line 194 raises.
GenerateCandidates ==
    /\ c_pc = "edges_loaded"
    /\ LET cands == EnumerateCandidates(entity_drug_indices, entity_disease_indices,
                                        existing_edges)
       IN  /\ all_candidates' = cands
           /\ \E score \in [Range(cands) -> ProbValues] :
                LET result == PredictBatch(cands, score, BatchSize)
                    probs == result.all_probs
                IN  IF result.raised
                    THEN /\ probabilities' = <<>>
                         /\ predictions' = <<>>
                    ELSE /\ probabilities' = probs
                         /\ \E order \in ArgsortOrders(probs) :
                              predictions' =
                                  PredictionRows(Take(Reverse(order), top_k), cands, probs)
    /\ c_pc' = IF predictions' = <<>> THEN "error" ELSE "generated"
    /\ UNCHANGED <<pipeVars, trainVars, evalVars, replayVars, mapVars, extVars, entity_types, top_k, entity_drug_indices,
                   entity_disease_indices, existing_edges>>

CandNext == LoadEntityMapping \/ LoadExistingEdges \/ GenerateCandidates

CandSpec == CandInit /\ [][CandNext]_vars

-----------------------------------------------------------------------------
(* generate_predictions.py: predict_batch on its own, for every batch size *)

MaxCandidates == 3

\* batch sizes: the smallest ones, the default of predict_batch's caller
BatchSizes == {1, 2, 3, BatchSize}

\* the candidate lists: pairs of the drug and disease blocks, in any order
CandidateLists == UNION { [1..n -> drug_indices \X disease_indices] : n \in 0..MaxCandidates }

BatchInit ==
    /\ PipeIdle
    /\ TrainIdle
    /\ CandIdle
    /\ EvalIdle
    /\ ReplayIdle
    /\ MapIdle
    /\ ExportIdle
    /\ LoadIdle
    /\ b_pc = "call"
    /\ b_candidates \in CandidateLists
    /\ b_batch_size \in BatchSizes
    /\ b_score \in [drug_indices \X disease_indices -> ProbValues]
    /\ b_result = <<>>

\* predict_batch returns np.array(all_probs)
PredictBatchReturns ==
    /\ b_pc = "call"
    /\ LET result == PredictBatch(b_candidates, b_score, b_batch_size)
       IN  /\ ~result.raised
           /\ b_result' = result.all_probs
    /\ b_pc' = "returned"
    /\ UNCHANGED <<pipeVars, trainVars, candVars, evalVars, replayVars, mapVars, exportVars,
                   loadVars, b_candidates, b_batch_size, b_score>>

\* predict_batch leaves by the TypeError of line 129
PredictBatchRaises ==
    /\ b_pc = "call"
    /\ PredictBatch(b_candidates, b_score, b_batch_size).raised
    /\ b_pc' = "error"
    /\ UNCHANGED <<pipeVars, trainVars, candVars, evalVars, replayVars, mapVars, exportVars,
                   loadVars, b_candidates, b_batch_size, b_score, b_result>>

BatchNext == PredictBatchReturns \/ PredictBatchRaises

BatchSpec == BatchInit /\ [][BatchNext]_vars

-----------------------------------------------------------------------------
(* The model parameters over the three programs: train_gnn.py trains and
   writes the checkpoint, then evaluate_gnn.py and generate_predictions.py
   each load it into a model of their own *)

MaxCalls == 2

\* load_state_dict(checkpoint['model_state_dict']), then model.eval()
LoadStateDict(ckpt) == ckpt.model_state_dict

\* a forward pass under @torch.no_grad() on a model in eval mode, with no
\* optimizer: the parameters after it
ForwardAndStep(params) == params + 1

ForwardNoGrad(params) == params

ServeInit ==
    /\ PipeQuiet
    /\ train_data = LabelledFile(<<1, 0>>)
    /\ val_data = LabelledFile(<<1, 0>>)
    /\ test_data = NoFile
    /\ CandIdle
    /\ EvalIdle
    /\ ReplayIdle
    /\ MapIdle
    /\ ExportIdle
    /\ BatchIdle
    /\ LoadIdle
    /\ t_pc = "start"
    /\ epochs \in 0..MaxEpochs
    /\ patience \in 0..MaxPatience
    /\ epoch = 0
    /\ model_state = 0 /\ optimizer_state = 0
    /\ history = [train_loss |-> <<>>, train_auc |-> <<>>, val_loss |-> <<>>,
                  val_auc |-> <<>>, val_ap |-> <<>>]
    /\ best_val_auc = 0
    /\ patience_counter = 0
    /\ checkpoint = <<>>

\* ModelEvaluator.__init__: torch.load of the checkpoint file train left
ConstructEvaluator ==
    /\ t_pc = "done"
    /\ checkpoint # <<>>
    /\ ev_model = <<>>
    /\ ev_model' = <<LoadStateDict(checkpoint[1])>>
    /\ ev_loads' = ev_loads + 1
    /\ UNCHANGED <<pipeVars, trainVars, candVars, evalVars, replayVars, mapVars, exportVars,
                   batchVars, ev_calls, pg_model, pg_loads, pg_calls>>

\* ModelEvaluator.evaluate, with its call of predict
EvaluatorPredict ==
    /\ ev_model # <<>>
    /\ ev_calls < MaxCalls
    /\ ev_model' = <<ForwardNoGrad(ev_model[1])>>
    /\ ev_calls' = ev_calls + 1
    /\ UNCHANGED <<pipeVars, trainVars, candVars, evalVars, replayVars, mapVars, exportVars,
                   batchVars, ev_loads, pg_model, pg_loads, pg_calls>>

\* PredictionGenerator.__init__
ConstructGenerator ==
    /\ t_pc = "done"
    /\ checkpoint # <<>>
    /\ pg_model = <<>>
    /\ pg_model' = <<LoadStateDict(checkpoint[1])>>
    /\ pg_loads' = pg_loads + 1
    /\ UNCHANGED <<pipeVars, trainVars, candVars, evalVars, replayVars, mapVars, exportVars,
                   batchVars, pg_calls, ev_model, ev_loads, ev_calls>>

\* PredictionGenerator.generate_candidates, with its calls of predict_batch
GeneratorPredictBatch ==
    /\ pg_model # <<>>
    /\ pg_calls < MaxCalls
    /\ pg_model' = <<ForwardNoGrad(pg_model[1])>>
    /\ pg_calls' = pg_calls + 1
    /\ UNCHANGED <<pipeVars, trainVars, candVars, evalVars, replayVars, mapVars, exportVars,
                   batchVars, pg_loads, ev_model, ev_loads, ev_calls>>

ServeNext ==
    \/ TrainStart
    \/ TrainEpoch
    \/ TrainReturn
    \/ ConstructEvaluator
    \/ EvaluatorPredict
    \/ ConstructGenerator
    \/ GeneratorPredictBatch

ServeSpec == ServeInit /\ [][ServeNext]_vars

-----------------------------------------------------------------------------
(* export_graph_data.py: create_node_mappings, called twice on the records
   export_nodes returned *)

\* The Drug and Disease ids of a database, in id order. The uniqueness
\* constraints of the loader keep each id on one node.
MapDrugIds == DrugIds \o <<"DRUG_0005">>
MapDiseaseIds == DiseaseIds \o <<"DISEASE_0006">>

\* the entries of pool at the positions in S, in pool order (ORDER BY id)
Sublist(pool, S) ==
    LET at == SelectSeq([i \in 1..Len(pool) |-> i], LAMBDA i : i \in S)
    IN  [k \in 1..Len(at) |-> pool[at[k]]]

\* d[k] = v on a dictionary
DictSet(d, k, v) == [x \in (DOMAIN d) \cup {k} |-> IF x = k THEN v ELSE d[x]]

\* idx += 1
NextIdxStuck(idx) == idx

NextIdx(idx) == idx + 1

\* the two loops of create_node_mappings, lines 75-87 and 90-102
RECURSIVE AddNodes(_, _, _)
AddNodes(maps, ids, type) ==
    IF ids = <<>> THEN maps
    ELSE AddNodes([node_to_idx |-> DictSet(maps.node_to_idx, Head(ids), maps.idx),
                   idx_to_node |-> DictSet(maps.idx_to_node, maps.idx,
                                           [id |-> Head(ids), type |-> type]),
                   idx |-> NextIdx(maps.idx)],
                  Tail(ids), type)

CreateNodeMappings(drug_ids, disease_ids) ==
    LET start == [node_to_idx |-> <<>>, idx_to_node |-> <<>>, idx |-> 0]
        all == AddNodes(AddNodes(start, drug_ids, "drug"), disease_ids, "disease")
    IN  [node_to_idx |-> all.node_to_idx, idx_to_node |-> all.idx_to_node]

MapInit ==
    /\ PipeIdle
    /\ TrainIdle
    /\ CandIdle
    /\ EvalIdle
    /\ ReplayIdle
    /\ m_pc = "start"
    /\ drug_records \in {Sublist(MapDrugIds, S) : S \in SUBSET (1..Len(MapDrugIds))}
    /\ disease_records \in {Sublist(MapDiseaseIds, S) : S \in SUBSET (1..Len(MapDiseaseIds))}
    /\ node_mappings = <<>>
    /\ node_mappings_again = <<>>
    /\ ExtIdle

\* export_graph, first build of the mappings
BuildMappings ==
    /\ m_pc = "start"
    /\ node_mappings' = <<CreateNodeMappings(drug_records, disease_records)>>
    /\ m_pc' = "built"
    /\ UNCHANGED <<pipeVars, trainVars, candVars, evalVars, replayVars, extVars, drug_records,
                   disease_records, node_mappings_again>>

\* a second build from the same records
BuildMappingsAgain ==
    /\ m_pc = "built"
    /\ node_mappings_again' = <<CreateNodeMappings(drug_records, disease_records)>>
    /\ m_pc' = "rebuilt"
    /\ UNCHANGED <<pipeVars, trainVars, candVars, evalVars, replayVars, extVars, drug_records,
                   disease_records, node_mappings>>

MapNext == BuildMappings \/ BuildMappingsAgain

MapSpec == MapInit /\ [][MapNext]_vars

-----------------------------------------------------------------------------
(* export_graph_data.py: export_edges on the mapping create_node_mappings
   built. export_nodes and export_edges read the database in two sessions,
   so a row of the TREATS query can name a node the node queries did not
   return. *)

\* node_to_idx.get(id): -1 stands for None
DictGet(d, k) == IF k \in DOMAIN d THEN d[k] ELSE -1

\* if drug_idx is not None and disease_idx is not None
BothMapped(drug_idx, disease_idx) == drug_idx # -1 /\ disease_idx # -1

\* the loop of export_edges, lines 127-136
RECURSIVE ExportEdgeIndex(_, _)
ExportEdgeIndex(node_to_idx, rows) ==
    IF rows = <<>> THEN <<>>
    ELSE LET drug_idx == DictGet(node_to_idx, Head(rows)[1])
             disease_idx == DictGet(node_to_idx, Head(rows)[2])
         IN  IF BothMapped(drug_idx, disease_idx)
             THEN <<<<drug_idx, disease_idx>>>> \o ExportEdgeIndex(node_to_idx, Tail(rows))
             ELSE ExportEdgeIndex(node_to_idx, Tail(rows))

\* the row lists the TREATS query returns here
ExportRowCounts == {0, 1, 2}

ExportRowLists ==
    UNION { [1..n -> Range(MapDrugIds) \X Range(MapDiseaseIds)] : n \in ExportRowCounts }

ExportInit ==
    /\ PipeIdle
    /\ TrainIdle
    /\ CandIdle
    /\ EvalIdle
    /\ ReplayIdle
    /\ m_pc = "start"
    /\ drug_records \in {Sublist(MapDrugIds, S) : S \in SUBSET (1..Len(MapDrugIds))}
    /\ disease_records \in {Sublist(MapDiseaseIds, S) : S \in SUBSET (1..Len(MapDiseaseIds))}
    /\ node_mappings = <<>>
    /\ node_mappings_again = <<>>
    /\ x_pc = "pending"
    /\ x_rows \in ExportRowLists
    /\ x_edge_index = <<>>
    /\ x_log = <<>>
    /\ BatchIdle
    /\ LoadIdle

\* export_graph, line 165: export_edges(node_to_idx) runs to its return
RunExportEdges ==
    /\ m_pc = "built"
    /\ x_pc = "pending"
    /\ x_edge_index' = ExportEdgeIndex(node_mappings[1].node_to_idx, x_rows)
    /\ x_log' = << <<"Total edges", Len(x_rows)>>, <<"Valid edges", Len(x_edge_index')>> >>
    /\ x_pc' = "exported"
    /\ UNCHANGED <<pipeVars, trainVars, candVars, evalVars, replayVars, mapVars, batchVars, loadVars,
                   x_rows>>

ExportNext == BuildMappings \/ RunExportEdges

ExportSpec == ExportInit /\ [][ExportNext]_vars

-----------------------------------------------------------------------------
(* prepare_training_data.py: two runs of prepare_splits on the same
   positive-edge input, with the same ratios and the same seed. The runs are
   advanced side by side, one statement of each at a time. *)

\* What a generator produces, out of the set S, when it is seeded as the
\* generator that produced x was: train_test_split(random_state=seed) and the
\* draws that follow np.random.seed(seed) repeat.
UnseededDraw(x, S) == S

SeededDraw(x, S) == {x}

\* the locals of a run before its first statement
RunStart ==
    [train_pos |-> <<>>, val_pos |-> <<>>, test_pos |-> <<>>,
     train_neg |-> <<>>, val_neg |-> <<>>, test_neg |-> <<>>,
     existing_edges_set |-> {}, negative_edges |-> <<>>, num_negatives |-> 0, attempts |-> 0,
     train_data |-> NoFile, val_data |-> NoFile, test_data |-> NoFile]

\* prepare_splits, lines 88-123, for the permutations the two splits drew
RunSplit(run, edges, rat, p, q) ==
    LET n_train == NTrain(Len(edges), rat[1], 100)
        temp == TestPart(edges, p, n_train)
        n_val == NTrain(Len(temp), rat[2], rat[2] + rat[3])
        tr == TrainPart(edges, p, n_train)
    IN  [run EXCEPT !.train_pos = tr,
                    !.val_pos = TrainPart(temp, q, n_val),
                    !.test_pos = TestPart(temp, q, n_val),
                    !.existing_edges_set = ExistingEdgesSet(edges),
                    !.negative_edges = <<>>,
                    !.num_negatives = NumNeg(tr),
                    !.attempts = 0]

RunSplitValid(edges, rat) ==
    /\ SplitValid(Len(edges), rat[1], 100)
    /\ SplitValid(Len(edges) - NTrain(Len(edges), rat[1], 100), rat[2], rat[2] + rat[3])

RunSampling(run) == SamplerRunning(run.negative_edges, run.num_negatives, run.attempts)

\* generate_negative_samples: one iteration of the while loop, for the pair drawn
RunDraw(run, drug_idx, disease_idx) ==
    IF IsNewEdge(drug_idx, disease_idx, run.existing_edges_set)
    THEN [run EXCEPT !.negative_edges = Append(@, <<drug_idx, disease_idx>>),
                     !.existing_edges_set = @ \cup {<<drug_idx, disease_idx>>},
                     !.attempts = @ + 1]
    ELSE [run EXCEPT !.attempts = @ + 1]

\* generate_negative_samples returns to prepare_splits, lines 123-125
RunReturn(run, stage, edges) ==
    [run EXCEPT !.train_neg = IF stage = "neg_train" THEN run.negative_edges ELSE @,
                !.val_neg = IF stage = "neg_val" THEN run.negative_edges ELSE @,
                !.test_neg = IF stage = "neg_test" THEN run.negative_edges ELSE @,
                !.existing_edges_set = ExistingEdgesSet(edges),
                !.negative_edges = <<>>,
                !.num_negatives = CASE stage = "neg_train" -> NumNeg(run.val_pos)
                                    [] stage = "neg_val" -> NumNeg(run.test_pos)
                                    [] OTHER -> 0,
                !.attempts = 0]

RunStackOK(run) ==
    /\ StackOK(run.train_pos, run.train_neg)
    /\ StackOK(run.val_pos, run.val_neg)
    /\ StackOK(run.test_pos, run.test_neg)

\* prepare_splits, lines 127-188, for the three permutations drawn
RunCombine(run, train_perm, val_perm, test_perm) ==
    [run EXCEPT !.train_data = Bundle(run.train_pos, run.train_neg, train_perm),
                !.val_data = Bundle(run.val_pos, run.val_neg, val_perm),
                !.test_data = Bundle(run.test_pos, run.test_neg, test_perm)]

RunPerms(pos, neg) == Perms(Len(pos) + Len(neg))

ReplayInit ==
    /\ PipeIdle
    /\ TrainIdle
    /\ CandIdle
    /\ EvalIdle
    /\ MapIdle
    /\ ExtIdle
    /\ r_pc = "split"
    /\ r_edges \in {ExportEdges(rows) : rows \in EdgeLists}
    /\ r_ratios \in RatioConfigs
    /\ first_run = RunStart
    /\ second_run = RunStart

\* both runs split the positives: train_test_split(random_state=seed), twice
ReplaySplit ==
    /\ r_pc = "split"
    /\ RunSplitValid(r_edges, r_ratios)
    /\ LET n == Len(r_edges)
           m == n - NTrain(n, r_ratios[1], 100)
       IN  \E p \in Perms(n), q \in Perms(m) :
             \E p2 \in SeededDraw(p, Perms(n)), q2 \in SeededDraw(q, Perms(m)) :
                /\ first_run' = RunSplit(first_run, r_edges, r_ratios, p, q)
                /\ second_run' = RunSplit(second_run, r_edges, r_ratios, p2, q2)
    /\ r_pc' = "neg_train"
    /\ UNCHANGED <<pipeVars, trainVars, candVars, evalVars, mapVars, extVars, r_edges, r_ratios>>

\* train_test_split raises in both runs
ReplaySplitFails ==
    /\ r_pc = "split"
    /\ ~RunSplitValid(r_edges, r_ratios)
    /\ r_pc' = "error"
    /\ UNCHANGED <<pipeVars, trainVars, candVars, evalVars, mapVars, extVars, r_edges, r_ratios,
                   first_run, second_run>>

\* one iteration of the sampling loop in each run that is still in it; the
\* sampler called np.random.seed(seed) on entry
ReplayDraw ==
    /\ r_pc \in {"neg_train", "neg_val", "neg_test"}
    /\ RunSampling(first_run) \/ RunSampling(second_run)
    /\ \E d \in drug_indices, s \in disease_indices :
         \E d2 \in SeededDraw(d, drug_indices), s2 \in SeededDraw(s, disease_indices) :
            /\ first_run' = IF RunSampling(first_run) THEN RunDraw(first_run, d, s)
                            ELSE first_run
            /\ second_run' = IF RunSampling(second_run) THEN RunDraw(second_run, d2, s2)
                             ELSE second_run
    /\ UNCHANGED <<pipeVars, trainVars, candVars, evalVars, mapVars, extVars, r_pc, r_edges, r_ratios>>

\* the sampler returns in both runs
ReplayReturn ==
    /\ r_pc \in {"neg_train", "neg_val", "neg_test"}
    /\ ~RunSampling(first_run) /\ ~RunSampling(second_run)
    /\ first_run' = RunReturn(first_run, r_pc, r_edges)
    /\ second_run' = RunReturn(second_run, r_pc, r_edges)
    /\ r_pc' = CASE r_pc = "neg_train" -> "neg_val"
                 [] r_pc = "neg_val" -> "neg_test"
                 [] OTHER -> "combine"
    /\ UNCHANGED <<pipeVars, trainVars, candVars, evalVars, mapVars, extVars, r_edges, r_ratios>>

\* both runs stack, label, shuffle after np.random.seed(seed), and save
ReplayCombine ==
    /\ r_pc = "combine"
    /\ RunStackOK(first_run) /\ RunStackOK(second_run)
    /\ \E tp \in RunPerms(first_run.train_pos, first_run.train_neg),
          vp \in RunPerms(first_run.val_pos, first_run.val_neg),
          sp \in RunPerms(first_run.test_pos, first_run.test_neg) :
         \E tp2 \in SeededDraw(tp, RunPerms(second_run.train_pos, second_run.train_neg)),
            vp2 \in SeededDraw(vp, RunPerms(second_run.val_pos, second_run.val_neg)),
            sp2 \in SeededDraw(sp, RunPerms(second_run.test_pos, second_run.test_neg)) :
            /\ first_run' = RunCombine(first_run, tp, vp, sp)
            /\ second_run' = RunCombine(second_run, tp2, vp2, sp2)
    /\ r_pc' = "saved"
    /\ UNCHANGED <<pipeVars, trainVars, candVars, evalVars, mapVars, extVars, r_edges, r_ratios>>

\* np.vstack raises in a run
ReplayCombineFails ==
    /\ r_pc = "combine"
    /\ ~(RunStackOK(first_run) /\ RunStackOK(second_run))
    /\ r_pc' = "error"
    /\ UNCHANGED <<pipeVars, trainVars, candVars, evalVars, mapVars, extVars, r_edges, r_ratios,
                   first_run, second_run>>

ReplayNext ==
    \/ ReplaySplit
    \/ ReplaySplitFails
    \/ ReplayDraw
    \/ ReplayReturn
    \/ ReplayCombine
    \/ ReplayCombineFails

ReplaySpec == ReplayInit /\ [][ReplayNext]_vars

-----------------------------------------------------------------------------
(* evaluate_gnn.py: ModelEvaluator.evaluate *)

\* the label vectors of a test split: at least one sample, as every split
\* train_test_split returns
TestLabelVectors == UNION {[1..n -> {0, 1}] : n \in 1..MaxSamples}

\* the probabilities predict can return, in percent, on both sides of the
\* 0.5 threshold
EvalProbValues == {25, 75}

\* k_values: the default of compute_precision_at_k and a list of small K
KValueLists == {<<10, 20, 50, 100>>, <<1, 2, 4>>}

\* y_pred = (y_pred_probs >= threshold).astype(int), threshold = 0.5
Threshold == 50

YPred(probs) == [i \in 1..Len(probs) |-> IF probs[i] >= Threshold THEN 1 ELSE 0]

\* confusion_matrix(y_true, y_pred): one row and column per label that occurs
\* in y_true or y_pred; cm[0, 1] raises IndexError on a 1 x 1 matrix
ConfusionLabels(yt, yp) == Range(yt) \cup Range(yp)

CountPairs(yt, yp, t, q) == Cardinality({i \in 1..Len(yt) : yt[i] = t /\ yp[i] = q})

\* compute_metrics, for the AUC value roc_auc_score returned
MetricsOf(yt, probs, auc) ==
    LET yp == YPred(probs)
    IN  [auc_roc |-> auc,
         tn |-> CountPairs(yt, yp, 0, 0),
         fp |-> CountPairs(yt, yp, 0, 1),
         fn |-> CountPairs(yt, yp, 1, 0),
         tp |-> CountPairs(yt, yp, 1, 1)]

RECURSIVE SumSeq(_)
SumSeq(q) == IF q = <<>> THEN 0 ELSE Head(q) + SumSeq(Tail(q))

\* if k > len(y_true): continue
SkipKFromLength(k, n) == k >= n

SkipK(k, n) == k > n

\* top_k_indices = np.argsort(y_pred_probs)[::-1]
TopKIndicesAscending(order) == order

TopKIndices(order) == Reverse(order)

\* compute_precision_at_k: the dictionary p@K |-> top_k_labels.sum() / k, the
\* quotient kept as numerator and denominator
ComputePrecisionAtK(yt, top_k_indices, ks) ==
    [k \in {ks[i] : i \in {j \in 1..Len(ks) : ~SkipK(ks[j], Len(yt))}} |->
        [num |-> SumSeq([j \in 1..k |-> yt[top_k_indices[j]]]), den |-> k]]

EvalInit ==
    /\ PipeIdle
    /\ TrainIdle
    /\ CandIdle
    /\ ReplayIdle
    /\ MapIdle
    /\ ExtIdle
    /\ e_pc = "start"
    /\ y_true \in TestLabelVectors
    /\ y_pred_probs \in [1..Len(y_true) -> EvalProbValues]
    /\ k_values \in KValueLists
    /\ metrics = <<>>
    /\ precision_at_k = <<>>
    /\ metrics_file = <<>>

\* evaluate, line 156: compute_metrics. roc_auc_score is the first call; a
\* nan it returns is kept and the confusion matrix is indexed next.
ComputeMetrics ==
    /\ e_pc = "start"
    /\ \E auc \in RocAucScore(y_true, AucValues) :
         IF auc = ValueError \/ Cardinality(ConfusionLabels(y_true, YPred(y_pred_probs))) < 2
         THEN /\ e_pc' = "error"
              /\ UNCHANGED metrics
         ELSE /\ e_pc' = "metrics"
              /\ metrics' = <<MetricsOf(y_true, y_pred_probs, auc)>>
    /\ UNCHANGED <<pipeVars, trainVars, candVars, replayVars, mapVars, extVars, y_true, y_pred_probs,
                   k_values, precision_at_k, metrics_file>>

\* evaluate, lines 157-158: compute_precision_at_k and metrics.update
EvalPrecisionAtK ==
    /\ e_pc = "metrics"
    /\ \E order \in ArgsortOrders(y_pred_probs) :
         precision_at_k' = ComputePrecisionAtK(y_true, TopKIndices(order), k_values)
    /\ e_pc' = "precision"
    /\ UNCHANGED <<pipeVars, trainVars, candVars, replayVars, mapVars, extVars, y_true, y_pred_probs,
                   k_values, metrics, metrics_file>>

\* evaluate, lines 160-169: the two plots, then json.dump of the metrics
PlotAndSave ==
    /\ e_pc = "precision"
    /\ metrics_file' = <<[metrics |-> metrics[1], precision_at_k |-> precision_at_k]>>
    /\ e_pc' = "saved"
    /\ UNCHANGED <<pipeVars, trainVars, candVars, replayVars, mapVars, extVars, y_true, y_pred_probs,
                   k_values, metrics, precision_at_k>>

EvalNext == ComputeMetrics \/ EvalPrecisionAtK \/ PlotAndSave

EvalSpec == EvalInit /\ [][EvalNext]_vars

-----------------------------------------------------------------------------
(* Claims on the data pipeline *)

AllPositives == Range(graph_edge_index)

SplitsDone == pc \in {"neg_train", "neg_val", "neg_test", "combine", "saved",
                      "training", "evaluating", "predicting"}

NoDup(s) == \A i, j \in 1..Len(s) : s[i] = s[j] => i = j

\* C1: the structure train_gnn.main and evaluate_gnn.main pass to the encoder
\* (the first num_pos columns of the saved, permuted train split) is exactly
\* the set of the train split's positive edges.
C1_StructureIsTrainPositives ==
    pc \in {"training", "evaluating"} => Range(structure) = Range(train_pos)

\* C2: no positive edge of the val split or of the test split is a member of
\* the structure tensor that training and evaluation pass to the encoder.
C2_NoHeldOutEdgeInStructure ==
    pc \in {"training", "evaluating"} =>
        Range(structure) \cap (Range(val_pos) \cup Range(test_pos)) = {}

\* C3: the structure tensor predict_batch passes to the model holds only
\* train-split positive edges and never a val-split or test-split positive.
C3_PredictStructureIsTrainOnly ==
    pc = "predicting" =>
        /\ Range(structure) \subseteq Range(train_pos)
        /\ Range(structure) \cap (Range(val_pos) \cup Range(test_pos)) = {}

\* C4: the positive edges prepare_splits places in train, val and test are
\* pairwise disjoint as sets of pairs and their union is the full positive
\* edge set, also when the export returned the same pair more than once.
C4_SplitsDisjointAndCovering ==
    SplitsDone =>
        /\ Range(train_pos) \cap Range(val_pos) = {}
        /\ Range(train_pos) \cap Range(test_pos) = {}
        /\ Range(val_pos) \cap Range(test_pos) = {}
        /\ Range(train_pos) \cup Range(val_pos) \cup Range(test_pos) = AllPositives

RatiosAcceptable(r) == r[1] + r[2] + r[3] \in 99..101 /\ \A i \in 1..3 : r[i] > 0

\* C15: prepare_splits rejects a ratio setting that does not sum to about
\* 1.0, or has a zero or negative part, before it splits an edge, samples a
\* negative or writes a file.
C15_BadRatiosRejectedFirst ==
    ~RatiosAcceptable(ratios) =>
        /\ train_pos = <<>> /\ val_pos = <<>> /\ test_pos = <<>>
        /\ negative_edges = <<>> /\ train_neg = <<>> /\ val_neg = <<>> /\ test_neg = <<>>
        /\ train_data = NoFile /\ val_data = NoFile /\ test_data = NoFile

InScenario ==
    /\ graph_edge_index = ScenarioEdges /\ ratios = ScenarioRatios
    /\ num_drugs = 4 /\ num_diseases = 3

\* C16: with 4 drugs, 3 diseases, the positive edges drug i - disease i for
\* i = 0, 1, 2, ratios 1/0/0 and neg_ratio 1.0, prepare_splits gets from the
\* sampler exactly 3 negative pairs, all among the 9 unknown pairs, none twice.
C16_ScenarioThreeNegatives ==
    (InScenario /\ pc # "split") =>
        /\ pc # "error"
        /\ pc # "neg_train" =>
              /\ Len(train_neg) = 3
              /\ NoDup(train_neg)
              /\ Range(train_neg) \subseteq
                    (DrugIndicesOf(4) \X DiseaseIndicesOf(4, 3)) \ Range(ScenarioEdges)

\* a sampler came back with fewer pairs than it was asked for
Shortfall ==
    \/ pc \notin {"split", "neg_train"} /\ Len(train_neg) < NumNeg(train_pos)
    \/ pc \notin {"split", "neg_train", "neg_val"} /\ Len(val_neg) < NumNeg(val_pos)
    \/ pc \notin {"split", "neg_train", "neg_val", "neg_test"} /\ Len(test_neg) < NumNeg(test_pos)

\* C17: a sampler that returns fewer pairs than requested (possibly none) is
\* never fatal: prepare_splits does not end in an error after it.
C17_ShortfallIsNotFatal ==
    (train_pos # <<>> /\ Shortfall) => pc # "error"

SplitParallel(data, pos, neg) ==
    /\ Len(data.labels) = Len(data.edge_index)
    /\ \A i \in 1..Len(data.labels) :
          /\ data.labels[i] \in {0, 1}
          /\ data.labels[i] = 1 <=> data.edge_index[i] \in Range(pos)
          /\ data.labels[i] = 0 <=> data.edge_index[i] \in Range(neg)
    /\ Cardinality({i \in 1..Len(data.labels) : data.labels[i] = 1}) = data.num_pos
    /\ Cardinality({i \in 1..Len(data.labels) : data.labels[i] = 0}) = data.num_neg
    /\ data.num_pos = Len(pos) /\ data.num_neg = Len(neg)

\* C18: in every saved split the label vector is parallel to the edge
\* tensor: labels[i] is 1 exactly if column i is one of the split's positive
\* edges and 0 exactly if it is one of its sampled negatives, and the counts
\* of 1 and 0 labels are num_pos and num_neg.
C18_LabelsParallelToEdges ==
    pc \in {"saved", "training", "evaluating", "predicting"} =>
        /\ SplitParallel(train_data, train_pos, train_neg)
        /\ SplitParallel(val_data, val_pos, val_neg)
        /\ SplitParallel(test_data, test_pos, test_neg)

\* C25: the structure tensor given to the encoder is undirected: whenever it
\* holds the pair (u, v) it also holds (v, u), in training, in evaluation and
\* in candidate scoring.
C25_StructureIsUndirected ==
    pc \in {"training", "evaluating", "predicting"} =>
        \A e \in Range(structure) : <<e[2], e[1]>> \in Range(structure)

\* the permutation moved a negative in front of a positive in the train split
C18_Witness ==
    /\ pc = "saved"
    /\ Len(train_data.labels) >= 2
    /\ train_data.labels[1] = 0 /\ train_data.labels[2] = 1

InSampler == pc \in {"neg_train", "neg_val", "neg_test"}

InBlocks(pair) ==
    /\ pair[1] \in 0..(num_drugs - 1)
    /\ pair[2] \in num_drugs..(num_drugs + num_diseases - 1)

\* C29: generate_negative_samples ends after at most 10 * num_negatives draw
\* attempts (every pass of its loop is one attempt and the attempts never
\* exceed that number), it returns at most num_negatives pairs, and every
\* pair has its first component in the drug block [0, num_drugs) and its
\* second in the disease block [num_drugs, num_drugs + num_diseases).
C29_SamplerBounded ==
    /\ [](InSampler =>
            /\ attempts <= RetryFactor * num_negatives
            /\ Len(negative_edges) <= num_negatives
            /\ \A i \in 1..Len(negative_edges) : InBlocks(negative_edges[i]))
    /\ [](/\ Len(train_neg) <= NumNeg(train_pos)
          /\ Len(val_neg) <= NumNeg(val_pos)
          /\ Len(test_neg) <= NumNeg(test_pos)
          /\ \A negs \in {train_neg, val_neg, test_neg} :
                \A i \in 1..Len(negs) : InBlocks(negs[i]))
    /\ [][(InSampler /\ pc' = pc) => attempts' = attempts + 1]_vars

\* a sampler used up its 10 * num_negatives attempts and came back short,
\* after another had returned what was asked for
C29_Witness ==
    /\ pc = "neg_test"
    /\ Len(train_neg) = NumNeg(train_pos) /\ train_neg # <<>>
    /\ Len(val_neg) < NumNeg(val_pos)
    /\ attempts >= 1

\* C30: the sampler adds every accepted pair to the set it is given, but
\* prepare_splits gives it a fresh copy for each split: the global positive
\* set is unchanged by sampling, each split is sampled against exactly the
\* global positive set, and a pair returned as a negative of one split can
\* still be drawn as a negative of another.
C30_EachSplitSampledAgainstPositives ==
    /\ SplitsDone => global_edges_set = AllPositives
    /\ InSampler =>
          /\ existing_edges_set = AllPositives \cup Range(negative_edges)
          /\ \A pair \in Range(train_neg) \cup Range(val_neg) \cup Range(test_neg) :
                \/ pair \in Range(negative_edges)
                \/ IsNewEdge(pair[1], pair[2], existing_edges_set)

\* the val sampler returned the pair the train sampler had returned, and the
\* test sampler has accepted a pair
C30_Witness ==
    /\ pc = "neg_test"
    /\ train_neg # <<>>
    /\ Range(train_neg) \cap Range(val_neg) # {}
    /\ negative_edges # <<>>

-----------------------------------------------------------------------------
(* Claims on the trainer *)

Last(s) == s[Len(s)]

EpochsExecuted == Len(history.val_auc)

\* C8: in every epoch, a val AUC strictly above best_val_auc writes the
\* checkpoint {epoch, parameters, optimizer state, val AUC, val AP}, sets
\* best_val_auc to it and resets patience_counter; any other val AUC writes
\* nothing, leaves best_val_auc alone and adds exactly 1 to patience_counter.
C8_CheckpointRule ==
    [][ epoch' = epoch + 1 =>
          LET v == Last(history'.val_auc)
          IN  IF v > best_val_auc
              THEN /\ checkpoint' = << [epoch |-> epoch',
                                        model_state_dict |-> model_state',
                                        optimizer_state_dict |-> optimizer_state',
                                        val_auc |-> v,
                                        val_ap |-> Last(history'.val_ap)] >>
                   /\ best_val_auc' = v
                   /\ patience_counter' = 0
              ELSE /\ checkpoint' = checkpoint
                   /\ best_val_auc' = best_val_auc
                   /\ patience_counter' = patience_counter + 1 ]_vars

\* both branches were taken: a checkpoint was written, then an epoch without
\* improvement left it in place
C8_Witness ==
    /\ checkpoint # <<>>
    /\ patience_counter >= 1
    /\ checkpoint[1].epoch < epoch

\* best val AUC and patience counter after the first i epochs of a val AUC
\* series, by the rule of section 4.4
RECURSIVE BestAfter(_, _)
BestAfter(h, i) ==
    IF i = 0 THEN 0
    ELSE IF h[i] > BestAfter(h, i - 1) THEN h[i] ELSE BestAfter(h, i - 1)

RECURSIVE CounterAfter(_, _)
CounterAfter(h, i) ==
    IF i = 0 THEN 0
    ELSE IF h[i] > BestAfter(h, i - 1) THEN 0 ELSE CounterAfter(h, i - 1) + 1

\* the epochs at whose end the patience counter has reached the patience
StopEpochs(h) == {i \in 1..Len(h) : CounterAfter(h, i) >= patience}

SetMin(S) == CHOOSE x \in S : \A y \in S : x <= y

\* C9: train terminates, and it executes exactly min(epochs, e*) epochs,
\* e* being the first epoch at whose end patience_counter has reached the
\* patience; no epoch runs after that one.
C9_TerminatesAtMinEpochs ==
    /\ <>(t_pc = "done")
    /\ [](t_pc = "done" =>
            LET stops == StopEpochs(history.val_auc)
            IN  IF stops = {}
                THEN EpochsExecuted = epochs
                ELSE EpochsExecuted = SetMin(stops) /\ EpochsExecuted <= epochs)

\* train stopped early, after more than one epoch and before the epoch count
C9_Witness ==
    /\ t_pc = "done"
    /\ EpochsExecuted > 1
    /\ EpochsExecuted < epochs

\* C10: after train returns from a run of at least one epoch, a best
\* checkpoint file exists at save_path, whatever the val AUC values were.
C10_CheckpointExists ==
    (t_pc = "done" /\ EpochsExecuted >= 1) => checkpoint # <<>>

SingleClass(labels) == \A i, j \in 1..Len(labels) : labels[i] = labels[j]

SetMax(S) == CHOOSE x \in S : \A y \in S : x >= y

\* C27: at the end of every epoch best_val_auc is the maximum of 0 and the
\* val AUC values recorded so far, and it never decreases; a checkpoint, when
\* there is one, stores that value as val_auc, the first epoch that attained
\* it as epoch, and the parameters as they were after that epoch's optimizer
\* step.
C27_BestIsRunningMaximum ==
    /\ [](t_pc \in {"loop", "done"} =>
            /\ best_val_auc = SetMax({0} \cup Range(history.val_auc))
            /\ checkpoint # <<>> =>
                  /\ checkpoint[1].val_auc = best_val_auc
                  /\ checkpoint[1].epoch =
                        SetMin({i \in 1..EpochsExecuted : history.val_auc[i] = best_val_auc})
                  /\ checkpoint[1].model_state_dict = checkpoint[1].epoch)
    /\ [][best_val_auc' >= best_val_auc]_vars

\* the best value was improved on in a second or later epoch and met again,
\* not exceeded, in an epoch after that
C27_Witness ==
    /\ checkpoint # <<>>
    /\ checkpoint[1].epoch >= 2
    /\ \E i \in 1..EpochsExecuted : i > checkpoint[1].epoch /\ history.val_auc[i] = best_val_auc
    /\ model_state > checkpoint[1].model_state_dict

\* the number of epochs run since the last one whose val AUC was above the
\* best before it, or since the start
EpochsSinceImprovement(h) ==
    LET improved == {i \in 1..Len(h) : h[i] > SetMax({0} \cup {h[j] : j \in 1..(i - 1)})}
    IN  IF improved = {} THEN Len(h) ELSE Len(h) - SetMax(improved)

\* C28: at the end of every epoch patience_counter is the number of epochs
\* run since the last epoch whose val AUC was strictly above the best before
\* it (since the start if there was none), each of the five history series
\* has one entry per epoch run, and for a patience of 1 or more the counter
\* never exceeds the patience.
C28_PatienceCounterAndHistory ==
    t_pc \in {"loop", "done"} =>
        /\ patience_counter = EpochsSinceImprovement(history.val_auc)
        /\ \A series \in {history.train_loss, history.train_auc, history.val_loss,
                           history.val_auc, history.val_ap} : Len(series) = epoch
        /\ patience >= 1 => patience_counter <= patience

\* the counter was reset by an improvement and has since reached a patience
\* of two
C28_Witness ==
    /\ t_pc = "done"
    /\ patience = 2 /\ patience_counter = 2
    /\ checkpoint # <<>>
    /\ EpochsExecuted = checkpoint[1].epoch + 2
    /\ checkpoint[1].epoch >= 2

-----------------------------------------------------------------------------
(* Claims on two runs of prepare_splits *)

SameBundle(a, b) ==
    a.edge_index = b.edge_index /\ a.labels = b.labels /\ a.num_pos = b.num_pos /\ a.num_neg = b.num_neg

-----------------------------------------------------------------------------
(* Claims on the node mappings *)

\* C20: the i-th drug record (from 0, in input order) gets index i and the
\* j-th disease record index num_drugs + j; node_to_idx and idx_to_node are
\* inverse to each other on the ids; a second build from the same records
\* gives the same mappings.
C20_MappingsDeterministic ==
    /\ m_pc \in {"built", "rebuilt"} =>
          LET node_to_idx == node_mappings[1].node_to_idx
              idx_to_node == node_mappings[1].idx_to_node
          IN  /\ \A i \in 1..Len(drug_records) : node_to_idx[drug_records[i]] = i - 1
              /\ \A j \in 1..Len(disease_records) :
                    node_to_idx[disease_records[j]] = Len(drug_records) + j - 1
              /\ DOMAIN node_to_idx = Range(drug_records) \cup Range(disease_records)
              /\ DOMAIN idx_to_node = 0..(Len(drug_records) + Len(disease_records) - 1)
              /\ \A id \in DOMAIN node_to_idx : idx_to_node[node_to_idx[id]].id = id
              /\ \A idx \in DOMAIN idx_to_node : node_to_idx[idx_to_node[idx].id] = idx
    /\ m_pc = "rebuilt" => node_mappings_again = node_mappings

\* the mappings of two drugs and two diseases were built twice
C20_Witness ==
    /\ m_pc = "rebuilt"
    /\ Len(drug_records) = 2 /\ Len(disease_records) = 2
    /\ node_mappings[1].node_to_idx[disease_records[2]] = 3

-----------------------------------------------------------------------------
(* Claims on export_edges *)

NodeSet == Range(drug_records) \cup Range(disease_records)

\* the rows that name a drug id or a disease id absent from the node set
DanglingRows == {i \in 1..Len(x_rows) : x_rows[i][1] \notin NodeSet \/ x_rows[i][2] \notin NodeSet}

ValidEdge(edge) ==
    /\ edge[1] \in 0..(Len(drug_records) - 1)
    /\ edge[2] \in Len(drug_records)..(Len(drug_records) + Len(disease_records) - 1)

\* C21: when a relationship row names a drug id or disease id absent from
\* the node set, the export ends in a DataError; the row is dropped with a
\* warning, it is not in the exported edge_index, and every exported edge
\* holds valid node indices.
C21_DanglingRowFailsAndIsDropped ==
    (x_pc \notin {"idle", "pending"} /\ DanglingRows # {}) =>
        /\ x_pc = "error"
        /\ \E i \in 1..Len(x_log) : x_log[i][1] = "Warning"
        /\ Len(x_edge_index) = Len(x_rows) - Cardinality(DanglingRows)
        /\ \A i \in 1..Len(x_edge_index) : ValidEdge(x_edge_index[i])

\* C23: generate_candidates returns exactly min(top_k, number of unknown
\* pairs) rows, ranked 1, 2, ..., n with each rank used once, and it ends
\* without an error also when there are fewer unknown pairs than top_k, none
\* at all included.
C23_ReturnsMinTopKRows ==
    c_pc \in {"generated", "error"} =>
        /\ c_pc = "generated"
        /\ Len(predictions) = (IF top_k < Len(all_candidates) THEN top_k ELSE Len(all_candidates))
        /\ \A r \in 1..Len(predictions) : predictions[r].rank = r

\* C24: the index space the generator enumerates is the graph tensor's:
\* every index of drug_indices is a Drug node index 0..num_drugs-1 of
\* graph_data and every index of disease_indices a Disease node index
\* num_drugs..N-1, so that a candidate's reported identity is that of the
\* nodes that were scored and checked against the known edges.
C24_EnumeratesGraphIndexSpace ==
    c_pc \notin {"idle", "start"} =>
        /\ Range(entity_drug_indices) = drug_indices
        /\ Range(entity_disease_indices) = disease_indices

-----------------------------------------------------------------------------
(* Claims on predict_batch *)

\* one probability per candidate, in input order: a single pass over all
OnePass(cands, score) == [i \in 1..Len(cands) |-> score[cands[i]]]

\* C22: for every batch size from 1 up and every candidate list, the empty
\* one and those whose last batch holds one candidate included, predict_batch
\* returns one probability per candidate, in input order, equal to what one
\* pass over the whole list gives.
C22_BatchingKeepsResult ==
    b_pc \notin {"idle", "call"} =>
        /\ b_pc = "returned"
        /\ b_result = OnePass(b_candidates, b_score)

-----------------------------------------------------------------------------
(* Claims on the model parameters *)

\* C26: the evaluator and the generator load the checkpoint once, when they
\* are constructed, and their parameters never change afterwards: not by
\* predict or evaluate, not by predict_batch or generate_candidates. Only an
\* epoch of the trainer (the optimizer step of train_epoch) changes parameters.
C26_ConsumersKeepParameters ==
    [][ /\ ev_model # <<>> => ev_model' = ev_model
        /\ pg_model # <<>> => pg_model' = pg_model
        /\ ev_model' # <<>> => ev_loads' = 1 /\ ev_model' = <<checkpoint[1].model_state_dict>>
        /\ pg_model' # <<>> => pg_loads' = 1 /\ pg_model' = <<checkpoint[1].model_state_dict>>
        /\ (ev_model' # ev_model \/ pg_model' # pg_model) => model_state' = model_state
        /\ model_state' # model_state => epoch' = epoch + 1 ]_vars

\* both consumers were called twice on the checkpoint of an epoch before the
\* last one, which the trainer's own parameters have left behind
C26_Witness ==
    /\ ev_calls = MaxCalls /\ pg_calls = MaxCalls
    /\ ev_model = pg_model
    /\ ev_model[1] < model_state

-----------------------------------------------------------------------------
(* Claims on the evaluator *)

C13_PrecisionKeysAreKWithinSamples ==
    e_pc \in {"precision", "saved"} =>
        DOMAIN precision_at_k = {k \in Range(k_values) : k <= Len(y_true)}

\* one K was left out and another one has its entry
C13_Witness ==
    /\ e_pc = "precision"
    /\ \E k \in Range(k_values) : k > Len(y_true)
    /\ \E k \in Range(k_values) : k \in DOMAIN precision_at_k

\* the sets of K positions that hold K highest probabilities
TopSets(probs, k) ==
    {S \in SUBSET (1..Len(probs)) :
        /\ Cardinality(S) = k
        /\ \A i \in S, j \in (1..Len(probs)) \ S : probs[i] >= probs[j]}

\* C14: for every K within the number of test samples, p@K is the number of
\* true positives among K samples with the highest probabilities, divided by
\* K; p@1 is 1.0 exactly if the highest-probability prediction is a true
\* positive.
C14_PrecisionIsTopKFraction ==
    e_pc \in {"precision", "saved"} =>
        /\ \A k \in DOMAIN precision_at_k :
              /\ precision_at_k[k].den = k
              /\ \E S \in TopSets(y_pred_probs, k) :
                    precision_at_k[k].num = Cardinality({i \in S : y_true[i] = 1})
        /\ 1 \in DOMAIN precision_at_k =>
              \A i \in 1..Len(y_true) :
                  (\A j \in 1..Len(y_true) : j # i => y_pred_probs[j] < y_pred_probs[i]) =>
                      (precision_at_k[1].num = precision_at_k[1].den <=> y_true[i] = 1)

\* p@1 and p@2 were computed where the top two samples are a true positive
\* and a negative, below them a lower-scored positive
C14_Witness ==
    /\ e_pc = "precision"
    /\ Len(y_true) = 3
    /\ {1, 2} \subseteq DOMAIN precision_at_k
    /\ precision_at_k[2].num = 1
    /\ \E i \in 1..3 : y_true[i] = 1 /\ y_pred_probs[i] = 25

-----------------------------------------------------------------------------
(* Claims on the candidate generator *)

\* the positive edges of the three split bundles
KnownPositives ==
    UNION { {f.edge_index[i] : i \in {j \in 1..Len(f.labels) : f.labels[j] = 1}} :
              f \in {train_data, val_data, test_data} }

EmittedPairs == {<<predictions[r].drug_idx, predictions[r].disease_idx>> : r \in 1..Len(predictions)}

\* C6: generate_candidates never emits a (drug, disease) pair that is a
\* positive edge of the train, val or test split, pairs being compared as the
\* generator compares them.
C6_NoKnownPositiveEmitted ==
    c_pc \in {"generated", "error"} => EmittedPairs \cap KnownPositives = {}

\* a table was returned although a pair of the enumerated cross product is a
\* known positive: the generator had to leave it out
C6_Witness ==
    /\ c_pc = "generated"
    /\ predictions # <<>>
    /\ Range(CrossProduct(entity_drug_indices, entity_disease_indices)) \cap KnownPositives # {}

\* C7: the returned candidates are in descending order of probability, and of
\* two candidates with equal probability the one earlier in enumeration order
\* (lower drug index, then lower disease index) has the lower rank.
C7_DescendingWithEnumerationTieBreak ==
    c_pc = "generated" =>
        \A r1, r2 \in 1..Len(predictions) :
            r1 < r2 =>
                /\ predictions[r1].confidence >= predictions[r2].confidence
                /\ predictions[r1].confidence = predictions[r2].confidence =>
                     \/ predictions[r1].drug_idx < predictions[r2].drug_idx
                     \/ /\ predictions[r1].drug_idx = predictions[r2].drug_idx
                        /\ predictions[r1].disease_idx < predictions[r2].disease_idx

====
